---- MODULE Spec2Model ----
(***************************************************************************)
(* A model of go-goodwe's inverter client (src/main.go): the CRC16         *)
(* checksum, the fixed-point field decoder, the frame parser, one UDP      *)
(* exchange attempt (Client.getData), the retry driver (Client.GetData),   *)
(* and main: location cache, geocoding, daylight gate, poll and upload.    *)
(*                                                                         *)
(* Bytes are integers 0..255 and byte slices are sequences; the Go slice   *)
(* expression s[lo:hi] (0-based, hi exclusive) is Slice(s, lo, hi).        *)
(*                                                                         *)
(* float64 values are modelled as exact rationals [n, d] in lowest terms.    *)
(* For every 16-bit raw value and every exponent in -2..3 the float64      *)
(* result of Parse16 is the double nearest to the rational computed here   *)
(* (the truncation in round never falls within rounding error of an        *)
(* integer), so comparisons between decoded values and the decimal         *)
(* literals of the source agree with the comparisons on rationals.         *)
(***************************************************************************)
EXTENDS Integers, Sequences, FiniteSets, TLC

\* ------------------------------------------------------------------ bounds

\* Largest attempt limit passed to Client.GetData.
MaxRetries == 3
\* How far below zero the attempt limit may be.
NegRetries == 1
\* Longest byte sequence over CrcAlphabet given to CRC16 on its own.
MaxCrcLen == 3
\* Largest positive exponent given to the decoder on its own.
MaxExp == 3
\* Largest number of decimal places (negated exponent) given to the decoder.
MaxPlaces == 2
\* Every status code from 0 to MaxStatus is given to parsePayload.
MaxStatus == 5

\* ------------------------------------------------------- integers and bits

\* Go's s[lo:hi] on a slice: 0-based, hi exclusive.
Slice(s, lo, hi) == SubSeq(s, lo + 1, hi)

\* Exclusive or of two non-negative integers, bit by bit.
xorBits[p \in Nat \X Nat] ==
    IF p[1] = 0 THEN p[2]
    ELSE IF p[2] = 0 THEN p[1]
    ELSE 2 * xorBits[<<p[1] \div 2, p[2] \div 2>>] + ((p[1] + p[2]) % 2)

XorBits(a, b) == xorBits[<<a, b>>]

\* XorBits on 4-bit values, tabulated once (row r, column c: (r-1) xor (c-1)).
NibbleXor ==
    [r \in 1..16 |-> [c \in 1..16 |-> XorBits(r - 1, c - 1)] \o <<>>] \o <<>>

XorNibble(a, b, w) ==
    NibbleXor[((a \div w) % 16) + 1][((b \div w) % 16) + 1] * w

\* Go's ^ on values below 2^16: exclusive or, four bits at a time.
Xor(a, b) ==
    XorNibble(a, b, 1) + XorNibble(a, b, 16) + XorNibble(a, b, 256)
    + XorNibble(a, b, 4096)

gcd[p \in Nat \X Nat] == IF p[2] = 0 THEN p[1] ELSE gcd[<<p[2], p[1] % p[2]>>]

Gcd(a, b) == gcd[<<a, b>>]

\* ------------------------------------------------------------------ CRC16

\* One pass of the inner loop of CRC16 (lines 427-431).
CrcBit(crc) ==
    IF crc % 2 # 0 THEN Xor(crc \div 2, 40961) ELSE crc \div 2

\* One pass of the outer loop of CRC16 (lines 425-432): the byte is XORed
\* into the register, then the inner loop runs 8 times.
CrcByte(crc, b) ==
    LET c0 == Xor(crc, b)
        c1 == CrcBit(c0)
        c2 == CrcBit(c1)
        c3 == CrcBit(c2)
        c4 == CrcBit(c3)
        c5 == CrcBit(c4)
        c6 == CrcBit(c5)
        c7 == CrcBit(c6)
    IN CrcBit(c7)

\* The outer loop of CRC16 (line 424) over data[lo..hi], in order. The
\* range is folded by halves, left half first, which visits the bytes in
\* the order of the for loop and keeps the evaluation shallow.
CrcLoop(crc0, bs, lo0, hi0) ==
    LET loop[a \in Nat \X Nat \X Nat] ==
            LET crc == a[1]
                lo == a[2]
                hi == a[3]
            IN IF lo > hi THEN crc
               ELSE IF lo = hi THEN CrcByte(crc, bs[lo])
               ELSE LET mid == (lo + hi) \div 2
                    IN loop[<<loop[<<crc, lo, mid>>], mid + 1, hi>>]
    IN loop[<<crc0, lo0, hi0>>]

\* A CRC16 that emits the register high byte first.
CRC16HighFirst(bs) ==
    LET crc == CrcLoop(65535, bs, 1, Len(bs))
    IN <<crc \div 256, crc % 256>>

\* func CRC16(data []byte) []byte
CRC16(bs) ==
    LET crc == CrcLoop(65535, bs, 1, Len(bs))
    IN <<crc % 256, crc \div 256>>

\* ------------------------------------------------- the fixed-point decoder

\* A float64 as an exact rational in lowest terms (n >= 0, d > 0).
Rat(num, d) == LET g == Gcd(num, d) IN [n |-> num \div g, d |-> d \div g]
FromInt(k) == [n |-> k, d |-> 1]
RMul(x, y) == Rat(x.n * y.n, x.d * y.d)
RDiv(x, y) == Rat(x.n * y.d, x.d * y.n)
RAdd(x, y) == Rat(x.n * y.d + y.n * x.d, x.d * y.d)
RGt(x, y) == x.n * y.d > y.n * x.d
\* int64(f) for f >= 0: truncation.
Trunc(x) == x.n \div x.d

\* binary.BigEndian.Uint16 / Uint32
Uint16(b) == b[1] * 256 + b[2]
Uint32(b) == ((b[1] * 256 + b[2]) * 256 + b[3]) * 256 + b[4]

\* The default branch of pow10 (lines 369-373): v /= 10, `times` times.
DivTen(v0, times) ==
    LET loop[k \in 0..times] ==
            IF k = 0 THEN v0 ELSE RDiv(loop[k - 1], FromInt(10))
    IN loop[times]

\* func pow10(exp int) float64. For exp > 0 the source computes
\* int64(10) ^ int64(exp), and ^ is Go's exclusive or.
pow10(exp) ==
    IF exp = 0 THEN FromInt(1)
    ELSE IF exp > 0 THEN FromInt(Xor(10, exp))
    ELSE DivTen(FromInt(1), -exp)

\* func round(f float64, places int) float64
round(f, places) ==
    LET scale == pow10(places)
    IN RDiv(FromInt(Trunc(RAdd(RMul(f, scale), Rat(1, 2)))), scale)

\* func Parse16(b []byte, exp int) float64
Parse16(b, exp) == round(RMul(FromInt(Uint16(b)), pow10(exp)), -exp)

\* func Parse32(b []byte, exp int) float64
Parse32(b, exp) == round(RMul(FromInt(Uint32(b)), pow10(exp)), -exp)

\* ------------------------------------------------------- the frame parser

\* A nil error, and a nil or non-nil *Data.
nil == "nil"
NilData == <<>>
Ptr(d) == <<d>>

\* The sentinel of line 331: the float64 literal 6553.5.
Sentinel == Rat(13107, 2)

\* The condition of line 331: AC phase i is suppressed.
Suppressed(ph, v) == ph > 0 /\ v = Sentinel

\* type GoodWeStatus int and its constants (lines 23-30).
WAITING == 0
NORMAL == 1
ERROR == 2
CHECKING == 3

\* A status that keeps only the codes with a name; any other reads ERROR.
StatusKnownOnly(bs) ==
    LET code == Trunc(Parse16(Slice(bs, 61, 63), 0))
    IN IF code > CHECKING THEN ERROR ELSE code

\* Line 341: GoodWeStatus(int(Parse16(data[61:63], 0))).
StatusOf(bs) == Trunc(Parse16(Slice(bs, 61, 63), 0))

\* A yield check that rejects values at the limits too.
PlausibleBelow(yieldToday, yieldTotal) ==
    ~(~RGt(FromInt(6500), yieldToday) \/ ~RGt(FromInt(4000000), yieldTotal))

\* A yield check that rejects only when both yields are out of range.
PlausibleUnlessBoth(yieldToday, yieldTotal) ==
    ~(RGt(yieldToday, FromInt(6500)) /\ RGt(yieldTotal, FromInt(4000000)))

\* The negation of the condition of line 347.
Plausible(yieldToday, yieldTotal) ==
    ~(RGt(yieldToday, FromInt(6500)) \/ RGt(yieldTotal, FromInt(4000000)))

\* The three values of AC phase i (lines 323-337), as <<v, c, f>>.
PhaseAC(bs, ph) ==
    LET vi == 39 + ph * 2
        ci == 45 + ph * 2
        fi == 51 + ph * 2
        v == Parse16(Slice(bs, vi, vi + 2), -1)
        c == Parse16(Slice(bs, ci, ci + 2), -1)
        f == Parse16(Slice(bs, fi, fi + 2), -2)
    IN IF Suppressed(ph, v)
       THEN <<FromInt(0), FromInt(0), FromInt(0)>>
       ELSE <<v, c, f>>

\* The snapshot parsePayload fills in (lines 311-345). `now` stands for
\* time.Now().
Decode(bs, now) ==
    LET vdc == [ch \in 0..3 |-> Parse16(Slice(bs, 9 + ch * 4, 9 + ch * 4 + 2), -1)]
        cdc == [ch \in 0..3 |-> Parse16(Slice(bs, 9 + ch * 4 + 2, 9 + ch * 4 + 4), -1)]
        ac == [ph \in 0..2 |-> PhaseAC(bs, ph)]
    IN [Sample |-> now,
        VoltageDC |-> vdc,
        CurrentDC |-> cdc,
        PowerDC |-> [ch \in 0..3 |-> RMul(vdc[ch], cdc[ch])],
        VoltageAC |-> [ph \in 0..2 |-> ac[ph][1]],
        CurrentAC |-> [ph \in 0..2 |-> ac[ph][2]],
        FrequencyAC |-> [ph \in 0..2 |-> ac[ph][3]],
        PowerAC |-> Parse16(Slice(bs, 59, 61), 0),
        Status |-> StatusOf(bs),
        Temperature |-> Parse16(Slice(bs, 85, 87), -1),
        YieldToday |-> Parse16(Slice(bs, 91, 93), -1),
        YieldTotal |-> Parse32(Slice(bs, 93, 97), 0),
        WorkingHours |-> Parse16(Slice(bs, 99, 101), 0)]

\* func parsePayload(data []byte) (*Data, error)
parsePayload(bs, now) ==
    LET d == Decode(bs, now)
    IN IF Plausible(d.YieldToday, d.YieldTotal)
       THEN [data |-> Ptr(d), err |-> nil]
       ELSE [data |-> NilData, err |-> "unrealistic yield values"]

\* ------------------------------------------- the inverter's datagrams

Zeros(k) == [j \in 1..k |-> 0]
BE16(v) == <<v \div 256, v % 256>>
BE32(v) == <<v \div 16777216, (v \div 65536) % 256, (v \div 256) % 256, v % 256>>

\* A 149-byte payload holding the raw fields f at the offsets parsePayload
\* reads; every other byte is 0.
PayloadOf(f) ==
    Zeros(9)
    \o BE16(f.vdc[1]) \o BE16(f.cdc[1]) \o BE16(f.vdc[2]) \o BE16(f.cdc[2])
    \o BE16(f.vdc[3]) \o BE16(f.cdc[3]) \o BE16(f.vdc[4]) \o BE16(f.cdc[4])
    \o Zeros(14)
    \o BE16(f.vac[1]) \o BE16(f.vac[2]) \o BE16(f.vac[3])
    \o BE16(f.cac[1]) \o BE16(f.cac[2]) \o BE16(f.cac[3])
    \o BE16(f.fac[1]) \o BE16(f.fac[2]) \o BE16(f.fac[3])
    \o Zeros(2)
    \o BE16(f.power) \o BE16(f.status)
    \o Zeros(22)
    \o BE16(f.temp)
    \o Zeros(4)
    \o BE16(f.today) \o BE32(f.total)
    \o Zeros(2)
    \o BE16(f.hours)
    \o Zeros(48)

\* Raw readings of a single-phase inverter at work: phases 1 and 2 report
\* the "no reading" voltage 0xFFFF.
FieldsDay ==
    [vdc |-> <<2345, 2350, 0, 0>>, cdc |-> <<52, 48, 0, 0>>,
     vac |-> <<2411, 65535, 65535>>, cac |-> <<43, 7, 0>>,
     fac |-> <<4998, 5001, 0>>,
     power |-> 1040, status |-> 1, temp |-> 412,
     today |-> 123, total |-> 45678, hours |-> 9876]

\* Raw readings with both yields at the largest accepted values.
FieldsEdge ==
    [FieldsDay EXCEPT !.today = 65000, !.total = 4000000, !.status = 7,
                      !.vac = <<65535, 2399, 2402>>]

PayloadDay == PayloadOf(FieldsDay)
PayloadEdge == PayloadOf(FieldsEdge)
PayloadToday == PayloadOf([FieldsDay EXCEPT !.today = 65001])
PayloadTotal == PayloadOf([FieldsDay EXCEPT !.total = 4000001])

Header == <<170, 85>>

\* A well-formed response: header, payload, checksum of the payload.
Frame(p) == Header \o p \o CRC16(p)

FrameDay == Frame(PayloadDay)
FrameEdge == Frame(PayloadEdge)
FrameToday == Frame(PayloadToday)
FrameTotal == Frame(PayloadTotal)
\* Wrong second header byte, checksum right.
FrameBadHeader == <<170, 84>> \o PayloadDay \o CRC16(PayloadDay)
\* Last checksum byte off by one.
FrameBadCrc ==
    LET c == CRC16(PayloadDay)
    IN Header \o PayloadDay \o <<c[1], (c[2] + 1) % 256>>
\* One byte short, no bytes at all, and a well-formed frame with one byte
\* after it.
FrameShort == SubSeq(FrameDay, 1, 152)
FrameEmpty == <<>>
FrameLong == FrameDay \o <<0>>

\* The datagrams the inverter (or anything else at that address) may answer
\* with.
Responses ==
    {FrameDay, FrameEdge, FrameToday, FrameTotal, FrameBadHeader,
     FrameBadCrc, FrameShort, FrameEmpty, FrameLong}

\* ------------------------------------------------------------ the state

VARIABLES
    retries,    \* GetData: the parameter
    pc,         \* where the call of GetData stands
    i,          \* GetData: the loop counter
    data,       \* GetData: the *Data of the latest attempt
    err,        \* GetData: the error of the latest attempt
    result,     \* what GetData returned, once pc = "done"
    conn,       \* getData: the socket, 0 before the dial
    deferred,   \* getData: the deferred conn.Close() is registered
    buf,        \* getData: the receive buffer
    n,          \* getData: the byte count conn.Read returned
    rerr,       \* getData: the error conn.Read returned
    socks,      \* every socket dialled so far: its state and its attempt
    sent,       \* every datagram written so far
    dgram,      \* the datagram the latest conn.Read took, if any
    attempts,   \* calls of getData so far
    sleeps,     \* calls of time.Sleep so far
    events,     \* the calls of getData and of time.Sleep, in order
    kind,       \* why the latest attempt failed, or "ok"
    call,       \* a function applied on its own: its name and arguments
    applied,    \* that function has been applied
    ret,        \* its result
    steps,      \* the calls and checks the latest attempt has made, in order
    mpc,        \* where main stands
    debug,      \* main: opts.Debug
    loaded,     \* main: how loading the location cache went
    cache,      \* main: the location cache (a nil map or not, location in it)
    geo,        \* main: how geocode went, if it was called
    clock,      \* main: now (line 190)
    sunriseTime, \* main: that day's sunrise
    sunsetTime, \* main: that day's sunset
    polls,      \* main: calls of Client.GetData so far
    rounds,     \* main: times the body of the for loop was entered
    uploads,    \* main: calls of upload so far
    upstatus,   \* upload: the outcome of the HTTP request
    exitCode,   \* the process's exit status, -1 while it runs
    exitMsg     \* what the process reported when it ended

driver == <<retries, pc, i, data, err, result>>
attempt == <<conn, deferred, buf, n, rerr>>
network == <<socks, sent, dgram>>
history == <<attempts, sleeps, events, kind, steps>>
pure == <<call, applied, ret>>
process ==
    <<mpc, debug, loaded, cache, geo, clock, sunriseTime, sunsetTime, polls,
      rounds, uploads, upstatus, exitCode, exitMsg>>
vars == <<driver, attempt, network, history, pure, process>>

\* ---------------------------------------------------------- Client.GetData

\* A loop that tests its condition after the first pass only.
LoopCondDoWhile(k, limit) == k = 0 \/ k < limit

\* The loop condition of line 252.
LoopCond(k, limit) == k < limit

\* A wait after every failed attempt, the last included.
SleepGuardAlways(k, limit) == k < limit

\* The condition of line 258.
SleepGuard(k, limit) == k < limit - 1

\* The test of line 254 inverted.
AttemptOkInverted(e) == e # nil

\* An attempt rejected by the yield check counted as the final answer.
AttemptOkOrInvalid(e) == e = nil \/ e = "unrealistic yield values"

\* The condition of line 254.
AttemptOk(e) == e = nil

IdleAttempt ==
    /\ conn = 0
    /\ deferred = FALSE
    /\ buf = <<>>
    /\ n = 0
    /\ rerr = nil

NoCall ==
    /\ call = [fn |-> "none", b |-> <<>>, exp |-> 0]
    /\ applied = FALSE
    /\ ret = <<>>

\* GetData is called on its own, not from main.
NoMain ==
    /\ mpc = "none"
    /\ debug = FALSE
    /\ loaded = "none"
    /\ cache = [isNil |-> TRUE, hit |-> FALSE]
    /\ geo = "none"
    /\ clock = 0
    /\ sunriseTime = 0
    /\ sunsetTime = 0
    /\ polls = 0
    /\ rounds = 0
    /\ uploads = 0
    /\ upstatus = -1
    /\ exitCode = -1
    /\ exitMsg = "none"

Init ==
    /\ retries \in (0 - NegRetries)..MaxRetries
    /\ pc = "loop"
    /\ i = 0
    /\ data = NilData
    /\ err = nil
    /\ result = [data |-> NilData, err |-> nil]
    /\ IdleAttempt
    /\ socks = <<>>
    /\ sent = <<>>
    /\ dgram = <<>>
    /\ attempts = 0
    /\ sleeps = 0
    /\ events = <<>>
    /\ kind = "none"
    /\ steps = <<>>
    /\ NoCall
    /\ NoMain

\* Line 252, then either the call of getData on line 253 or the return on
\* line 263.
Loop ==
    /\ pc = "loop"
    /\ IF LoopCond(i, retries)
       THEN /\ pc' = "dial"
            /\ attempts' = attempts + 1
            /\ events' = Append(events, "attempt")
            /\ buf' = <<>>
            /\ n' = 0
            /\ rerr' = nil
            /\ dgram' = <<>>
            /\ steps' = <<>>
            /\ UNCHANGED <<result, conn, deferred>>
       ELSE /\ pc' = "done"
            /\ result' = [data |-> NilData,
                          err |-> "failed to get data after retries"]
            /\ UNCHANGED <<attempts, events, attempt, dgram, steps>>
    /\ UNCHANGED <<retries, i, data, err, socks, sent, sleeps, kind, pure,
                   process>>

\* Lines 254-260: the attempt has returned.
After ==
    /\ pc = "after"
    /\ IF AttemptOk(err)
       THEN /\ result' = [data |-> data, err |-> nil]
            /\ pc' = "done"
            /\ UNCHANGED i
       ELSE IF SleepGuard(i, retries)
       THEN /\ pc' = "sleep"
            /\ UNCHANGED <<i, result>>
       ELSE /\ pc' = "loop"
            /\ i' = i + 1
            /\ UNCHANGED result
    /\ UNCHANGED <<retries, data, err, attempt, network, history, pure,
                   process>>

\* Line 259, then i++.
Sleep ==
    /\ pc = "sleep"
    /\ sleeps' = sleeps + 1
    /\ events' = Append(events, "sleep")
    /\ i' = i + 1
    /\ pc' = "loop"
    /\ UNCHANGED <<retries, data, err, result, attempt, network, attempts,
                   kind, steps, pure, process>>

\* ---------------------------------------------------------- Client.getData

\* A deferred close that never runs.
CloseSkipped(ss, c, registered) == ss

\* The deferred call of lines 272-277, run when getData returns.
CloseDeferred(ss, c, registered) ==
    IF registered THEN [ss EXCEPT ![c].state = "closed"] ELSE ss

\* `return d, e` anywhere in getData: the deferred close runs, and control
\* is back on line 254. k records which check or call failed, and the
\* statement that returned joins the attempt's steps.
Return(d, e, k) ==
    /\ data' = d
    /\ err' = e
    /\ kind' = k
    /\ socks' = CloseDeferred(socks, conn, deferred)
    /\ conn' = 0
    /\ deferred' = FALSE
    /\ steps' = Append(steps, pc)
    /\ pc' = "after"

\* getData goes on to its next statement.
Continue(next) ==
    /\ steps' = Append(steps, pc)
    /\ pc' = next
    /\ UNCHANGED <<data, err, kind, socks, conn, deferred>>

\* Lines 267-277: net.DialTimeout, and the defer when it succeeded.
Dial ==
    /\ pc = "dial"
    /\ \E ok \in BOOLEAN :
        IF ok
        THEN /\ socks' = Append(socks, [state |-> "open", attempt |-> attempts])
             /\ conn' = Len(socks) + 1
             /\ deferred' = TRUE
             /\ steps' = Append(steps, pc)
             /\ pc' = "deadline"
             /\ UNCHANGED <<data, err, kind>>
        ELSE Return(NilData, "dial error", "dial")
    /\ UNCHANGED <<retries, i, result, buf, n, rerr, sent, dgram, attempts,
                   sleeps, events, pure, process>>

\* Lines 278-281: conn.SetDeadline.
SetDeadline ==
    /\ pc = "deadline"
    /\ \E ok \in BOOLEAN :
        IF ok
        THEN Continue("write")
        ELSE Return(NilData, "deadline error", "deadline")
    /\ UNCHANGED <<retries, i, result, buf, n, rerr, sent, dgram, attempts,
                   sleeps, events, pure, process>>

\* The command of line 284.
Command == <<127, 3, 117, 148, 0, 73>>

\* A request without its checksum.
RequestBare == Command

\* The request of lines 284-285.
Request == Command \o CRC16(Command)

\* Lines 287-290: conn.Write.
Write ==
    /\ pc = "write"
    /\ \E ok \in BOOLEAN :
        IF ok
        THEN /\ sent' = Append(sent, [sock |-> conn, attempt |-> attempts,
                                      bytes |-> Request])
             /\ Continue("read")
        ELSE /\ Return(NilData, "write error", "send")
             /\ UNCHANGED sent
    /\ UNCHANGED <<retries, i, result, buf, n, rerr, dgram, attempts,
                   sleeps, events, pure, process>>

\* What conn.Read into a 153-byte buffer gives for the datagram d. A
\* datagram longer than the buffer is cut to the buffer's size where the
\* system discards the excess silently (POSIX), and is an error where the
\* system reports it (Windows).
ReadResults(d) ==
    IF Len(d) <= 153
    THEN {[n |-> Len(d), err |-> nil, buf |-> d \o Zeros(153 - Len(d))]}
    ELSE {[n |-> 153, err |-> nil, buf |-> SubSeq(d, 1, 153)],
          [n |-> 153, err |-> "message too long", buf |-> SubSeq(d, 1, 153)]}

\* Lines 292-293: the buffer and conn.Read. Either a datagram arrives
\* before the deadline or the read fails (the deadline passes, or the
\* socket reports an error).
Read ==
    /\ pc = "read"
    /\ \/ /\ buf' = Zeros(153)
          /\ n' = 0
          /\ rerr' = "read error"
          /\ dgram' = <<>>
       \/ \E d \in Responses : \E r \in ReadResults(d) :
            /\ buf' = r.buf
            /\ n' = r.n
            /\ rerr' = r.err
            /\ dgram' = <<d>>
    /\ Continue("size")
    /\ UNCHANGED <<retries, i, result, sent, attempts, sleeps, events, pure,
                   process>>

\* A size check that accepts everything.
SizeOkAlways(count, e) == TRUE

\* The negation of the condition of line 294.
SizeOk(count, e) == ~(e # nil \/ count # 153)

\* Lines 294-296.
CheckSize ==
    /\ pc = "size"
    /\ IF SizeOk(n, rerr)
       THEN Continue("header")
       ELSE Return(NilData, "bad response size",
                   IF rerr # nil THEN "recv" ELSE "length")
    /\ UNCHANGED <<retries, i, result, buf, n, rerr, sent, dgram, attempts,
                   sleeps, events, pure, process>>

\* The negation of the condition of line 298.
HeaderOk(b) == Slice(b, 0, 2) = <<170, 85>>

\* Lines 298-300.
CheckHeader ==
    /\ pc = "header"
    /\ IF HeaderOk(buf)
       THEN Continue("crc")
       ELSE Return(NilData, "invalid header", "header")
    /\ UNCHANGED <<retries, i, result, buf, n, rerr, sent, dgram, attempts,
                   sleeps, events, pure, process>>

\* Line 302: payload := buf[2:151].
Payload(b) == Slice(b, 2, 151)

\* A checksum check on the first checksum byte only.
CrcOkFirst(b) == CRC16(Payload(b))[1] = b[152]

\* The negation of the condition of line 303.
CrcOk(b) == CRC16(Payload(b)) = Slice(b, 151, Len(b))

\* Lines 302-305.
CheckCRC ==
    /\ pc = "crc"
    /\ IF CrcOk(buf)
       THEN Continue("parse")
       ELSE Return(NilData, "CRC mismatch", "crc")
    /\ UNCHANGED <<retries, i, result, buf, n, rerr, sent, dgram, attempts,
                   sleeps, events, pure, process>>

\* Line 307: return parsePayload(payload). The clock read on line 311 is
\* the number of the attempt.
Parse ==
    /\ pc = "parse"
    /\ LET r == parsePayload(Payload(buf), attempts)
       IN Return(r.data, r.err, IF r.err = nil THEN "ok" ELSE "validation")
    /\ UNCHANGED <<retries, i, result, buf, n, rerr, sent, dgram, attempts,
                   sleeps, events, pure, process>>

Next ==
    \/ Loop
    \/ Dial
    \/ SetDeadline
    \/ Write
    \/ Read
    \/ CheckSize
    \/ CheckHeader
    \/ CheckCRC
    \/ Parse
    \/ After
    \/ Sleep

Spec == Init /\ [][Next]_vars

\* ------------------------------------------- functions applied on their own

\* No call of GetData is under way.
IdleExchange ==
    /\ retries = 0
    /\ pc = "idle"
    /\ i = 0
    /\ data = NilData
    /\ err = nil
    /\ result = [data |-> NilData, err |-> nil]
    /\ IdleAttempt
    /\ socks = <<>>
    /\ sent = <<>>
    /\ dgram = <<>>
    /\ attempts = 0
    /\ sleeps = 0
    /\ events = <<>>
    /\ kind = "none"
    /\ steps = <<>>

\* Bytes the short inputs of CRC16 are made of.
CrcAlphabet == {0, 1, 128, 255}

\* The byte sequences CRC16 is applied to: every sequence over CrcAlphabet
\* up to MaxCrcLen bytes, every single byte, and the command of line 284.
CrcInputs ==
    UNION {[1..len -> CrcAlphabet] : len \in 0..MaxCrcLen}
    \cup {<<b>> : b \in 0..255}
    \cup {Command}

InitCRC ==
    /\ IdleExchange
    /\ NoMain
    /\ \E bs \in CrcInputs : call = [fn |-> "CRC16", b |-> bs, exp |-> 0]
    /\ applied = FALSE
    /\ ret = <<>>

\* The function named by `call` returns v.
Returns(v) ==
    /\ ~applied
    /\ applied' = TRUE
    /\ ret' = v
    /\ UNCHANGED <<call, driver, attempt, network, history, process>>

ApplyCRC16 ==
    /\ call.fn = "CRC16"
    /\ Returns(CRC16(call.b))

NextCRC == ApplyCRC16

SpecCRC == InitCRC /\ [][NextCRC]_vars

\* Raw 16-bit values given to Parse16, as byte pairs.
DecodeInputs16 ==
    {BE16(v) : v \in {0, 1, 5, 6, 7, 10, 99, 100, 123, 2345, 2411, 4998,
                      5001, 6553, 65000, 65001, 65534, 65535}}

\* Raw 32-bit values given to Parse32, as four bytes.
DecodeInputs32 ==
    {BE32(v) : v \in {0, 1, 7, 45678, 65536, 3999999, 4000000, 4000001}}

\* The exponents the decoder is given.
DecodeExps == (0 - MaxPlaces)..MaxExp

InitDecode ==
    /\ IdleExchange
    /\ NoMain
    /\ \/ \E bs \in DecodeInputs16 : \E e \in DecodeExps :
            call = [fn |-> "Parse16", b |-> bs, exp |-> e]
       \/ \E bs \in DecodeInputs32 : \E e \in DecodeExps :
            call = [fn |-> "Parse32", b |-> bs, exp |-> e]
       \/ \E e \in DecodeExps :
            call = [fn |-> "pow10", b |-> <<>>, exp |-> e]
    /\ applied = FALSE
    /\ ret = <<>>

ApplyParse16 ==
    /\ call.fn = "Parse16"
    /\ Returns(Parse16(call.b, call.exp))

ApplyParse32 ==
    /\ call.fn = "Parse32"
    /\ Returns(Parse32(call.b, call.exp))

ApplyPow10 ==
    /\ call.fn = "pow10"
    /\ Returns(pow10(call.exp))

NextDecode ==
    \/ ApplyParse16
    \/ ApplyParse32
    \/ ApplyPow10

SpecDecode == InitDecode /\ [][NextDecode]_vars

\* Raw AC voltages: a reading, the "no reading" value 0xFFFF, and 0.
ParseVolts == {2411, 65535, 0}

\* Raw fields that differ in the AC phases.
PhaseFields ==
    {[FieldsDay EXCEPT !.vac = <<v1, v2, v3>>, !.cac = cf, !.fac = cf] :
        v1 \in ParseVolts, v2 \in ParseVolts, v3 \in ParseVolts,
        cf \in {<<43, 7, 5001>>, <<65535, 65535, 65535>>}}

\* The status codes given to parsePayload.
StatusCodes == 0..MaxStatus \cup {255, 256, 65534, 65535}

\* Raw fields that differ in the status and the two yields.
YieldFields ==
    {[FieldsDay EXCEPT !.status = st, !.today = yd, !.total = yt] :
        st \in StatusCodes,
        yd \in {0, 123, 65000, 65001, 65535},
        yt \in {0, 45678, 4000000, 4000001, 1000000000}}

\* Every field but the yields at its largest raw value (the DC currents at
\* 255, which keeps the DC powers within the integers of the checker).
FieldsSaturated ==
    [vdc |-> <<65535, 65535, 65535, 65535>>,
     cdc |-> <<255, 255, 255, 255>>,
     vac |-> <<65535, 65535, 65535>>, cac |-> <<65535, 65535, 65535>>,
     fac |-> <<65535, 65535, 65535>>,
     power |-> 65535, status |-> 65535, temp |-> 65535,
     today |-> 65000, total |-> 4000000, hours |-> 65535]

\* The payloads parsePayload is applied to.
ParseInputs ==
    {PayloadOf(f) : f \in PhaseFields \cup YieldFields \cup {FieldsSaturated}}

InitParse ==
    /\ IdleExchange
    /\ NoMain
    /\ \E bs \in ParseInputs :
        call = [fn |-> "parsePayload", b |-> bs, exp |-> 0]
    /\ applied = FALSE
    /\ ret = <<>>

\* parsePayload at time 0.
ApplyParsePayload ==
    /\ call.fn = "parsePayload"
    /\ Returns(parsePayload(call.b, 0))

NextParse == ApplyParsePayload

SpecParse == InitParse /\ [][NextParse]_vars

\* --------------------------------------------------------------- main

\* The last instant of the clock main reads; the day runs from 2 to
\* MaxClock - 1.
MaxClock == 4

\* How reading and decoding .location_cache.json may go: no such file, a
\* file that cannot be read, a file that is not JSON for the map, the JSON
\* null, a map without the location, a map with it.
LoadOutcomes == {"missing", "unreadable", "malformed", "null", "miss", "hit"}

\* func loadCache(path string) (LocationCache, error), as main uses it: the
\* error is dropped (line 168), the map is nil after `return nil, err`
\* (lines 94, 98) and after decoding null (line 101).
loadCache(outcome) ==
    [isNil |-> outcome \in {"unreadable", "malformed", "null"},
     hit |-> outcome = "hit"]

\* What sunrise.SunriseSunset may return: the two zero times when the sun
\* does not rise or set that day, or a sunrise and a sunset.
Days == {<<0, 0>>, <<2, MaxClock - 1>>}

\* Line 194: now.Before(sunriseTime).
beforeSunUp(t, rise) == t < rise

\* A sunset test that never holds.
AfterSunDownNever(t, set) == FALSE

\* Line 195: now.After(sunsetTime).
afterSunDown(t, set) == t > set

\* What the HTTP request of upload may give: 0 for a transport error, or
\* the status code of the response.
UploadOutcomes == {0, 200, 201, 404, 500}

\* An upload taken to succeed whatever the response.
UploadOkAny(status) == TRUE

\* upload returns nil: no transport error (line 400) and
\* resp.StatusCode == http.StatusOK (line 410).
UploadOk(status) == status = 200

InitMain ==
    /\ IdleExchange
    /\ NoCall
    /\ mpc = "flags"
    /\ debug = FALSE
    /\ loaded = "none"
    /\ cache = [isNil |-> TRUE, hit |-> FALSE]
    /\ geo = "none"
    /\ clock = 0
    /\ sunriseTime = 0
    /\ sunsetTime = 0
    /\ polls = 0
    /\ rounds = 0
    /\ uploads = 0
    /\ upstatus = -1
    /\ exitCode = -1
    /\ exitMsg = "none"

\* os.Exit(code), log.Fatalf (which exits with 1) or a panic (2).
Exit(code, msg) ==
    /\ mpc' = "exit"
    /\ exitCode' = code
    /\ exitMsg' = msg

\* main goes on to its next statement.
Goto(next) ==
    /\ mpc' = next
    /\ UNCHANGED <<exitCode, exitMsg>>

\* Lines 153-165: flags.Parse.
ParseFlags ==
    /\ mpc = "flags"
    /\ \/ /\ Exit(1, "none")
          /\ UNCHANGED debug
       \/ /\ debug' \in BOOLEAN
          /\ Goto("cache")
    /\ UNCHANGED <<driver, attempt, network, history, pure, loaded, cache,
                   geo, clock, sunriseTime, sunsetTime, polls, rounds,
                   uploads, upstatus>>

\* Lines 167-171: loadCache and the lookup of the location.
LoadCache ==
    /\ mpc = "cache"
    /\ \E outcome \in LoadOutcomes :
        /\ loaded' = outcome
        /\ cache' = loadCache(outcome)
        /\ IF loadCache(outcome).hit THEN Goto("gate") ELSE Goto("geocode")
    /\ UNCHANGED <<driver, attempt, network, history, pure, debug, geo,
                   clock, sunriseTime, sunsetTime, polls, rounds, uploads,
                   upstatus>>

\* Lines 174-178: geocode. Its request goes through http.DefaultClient
\* (line 126), which sets no timeout: a server that accepts the request and
\* never answers keeps the call from returning.
Geocode ==
    /\ mpc = "geocode"
    /\ \/ /\ geo' = "error"
          /\ Exit(1, "Geocoding error")
       \/ /\ geo' = "ok"
          /\ Goto("store")
       \/ /\ geo' = "hang"
          /\ Goto("blocked")
    /\ UNCHANGED <<driver, attempt, network, history, pure, debug, loaded,
                   cache, clock, sunriseTime, sunsetTime, polls, rounds,
                   uploads, upstatus>>

\* Lines 180-185: cache[opts.Location] = coords, which panics on a nil map,
\* then saveCache, whose error is only logged.
Store ==
    /\ mpc = "store"
    /\ IF cache.isNil
       THEN /\ Exit(2, "panic: assignment to entry in nil map")
            /\ UNCHANGED cache
       ELSE /\ cache' = [isNil |-> FALSE, hit |-> TRUE]
            /\ Goto("gate")
    /\ UNCHANGED <<driver, attempt, network, history, pure, debug, loaded,
                   geo, clock, sunriseTime, sunsetTime, polls, rounds,
                   uploads, upstatus>>

\* Lines 188-205: the clock, the day's sunrise and sunset, and the gate.
Gate ==
    /\ mpc = "gate"
    /\ \E t \in 1..MaxClock : \E day \in Days :
        /\ clock' = t
        /\ sunriseTime' = day[1]
        /\ sunsetTime' = day[2]
        /\ IF beforeSunUp(t, day[1])
           THEN Exit(0, "Running before sun up, exiting")
           ELSE IF afterSunDown(t, day[2])
           THEN Exit(0, "Running after sun down, exiting")
           ELSE Goto("poll")
    /\ UNCHANGED <<driver, attempt, network, history, pure, debug, loaded,
                   cache, geo, polls, rounds, uploads, upstatus>>

\* Lines 209-210: the body of the for loop is entered and calls
\* client.GetData(3).
Poll ==
    /\ mpc = "poll"
    /\ rounds' = rounds + 1
    /\ polls' = polls + 1
    /\ retries' = 3
    /\ pc' = "loop"
    /\ i' = 0
    /\ Goto("fetching")
    /\ UNCHANGED <<data, err, result, attempt, network, history, pure, debug,
                   loaded, cache, geo, clock, sunriseTime, sunsetTime,
                   uploads, upstatus>>

\* Lines 211-213: GetData has returned.
Fetched ==
    /\ mpc = "fetching"
    /\ pc = "done"
    /\ IF result.err # nil
       THEN Exit(1, "Failed to get data")
       ELSE Goto("marshal")
    /\ UNCHANGED <<driver, attempt, network, history, pure, debug, loaded,
                   cache, geo, clock, sunriseTime, sunsetTime, polls, rounds,
                   uploads, upstatus>>

\* Lines 215-223: json.MarshalIndent and the debug exit.
Marshal ==
    /\ mpc = "marshal"
    /\ \/ Exit(1, "Failed to marshal data")
       \/ IF debug THEN Exit(0, "debug") ELSE Goto("upload")
    /\ UNCHANGED <<driver, attempt, network, history, pure, debug, loaded,
                   cache, geo, clock, sunriseTime, sunsetTime, polls, rounds,
                   uploads, upstatus>>

\* Lines 225-241: the reading and upload.
Upload ==
    /\ mpc = "upload"
    /\ uploads' = uploads + 1
    /\ \E outcome \in UploadOutcomes :
        /\ upstatus' = outcome
        /\ IF UploadOk(outcome)
           THEN Goto("finish")
           ELSE Exit(1, "Upload to PVOutput failed")
    /\ UNCHANGED <<driver, attempt, network, history, pure, debug, loaded,
                   cache, geo, clock, sunriseTime, sunsetTime, polls, rounds>>

\* Line 243: os.Exit(0).
Finish ==
    /\ mpc = "finish"
    /\ Exit(0, "none")
    /\ UNCHANGED <<driver, attempt, network, history, pure, debug, loaded,
                   cache, geo, clock, sunriseTime, sunsetTime, polls, rounds,
                   uploads, upstatus>>

NextMain ==
    \/ ParseFlags
    \/ LoadCache
    \/ Geocode
    \/ Store
    \/ Gate
    \/ Poll
    \/ Fetched
    \/ Marshal
    \/ Upload
    \/ Finish
    \/ Loop
    \/ Dial
    \/ SetDeadline
    \/ Write
    \/ Read
    \/ CheckSize
    \/ CheckHeader
    \/ CheckCRC
    \/ Parse
    \/ After
    \/ Sleep

SpecMain == InitMain /\ [][NextMain]_vars

\* ============================================================== properties

\* The ways an attempt fails.
FailureKinds ==
    {"dial", "deadline", "send", "recv", "length", "header", "crc",
     "validation"}

OpenSocks == {k \in 1..Len(socks) : socks[k].state = "open"}

\* The datagrams written by attempt a.
SentBy(a) == {k \in 1..Len(sent) : sent[k].attempt = a}

\* attempt, sleep, attempt, ..., attempt: k attempts with a wait between
\* each two.
Alternating(k) ==
    [j \in 1..(2 * k - 1) |-> IF j % 2 = 1 THEN "attempt" ELSE "sleep"]

\* C1: when every attempt of GetData(n), n >= 1, fails, GetData makes exactly
\* n attempts, waits after each of attempts 1..n-1 and not after attempt n,
\* and returns the aggregate error with no snapshot; there is never an
\* attempt beyond the n-th.
C1_RetryExhaustion ==
    /\ attempts <= (IF retries > 0 THEN retries ELSE 0)
    /\ sleeps <= attempts
    /\ (pc = "done" /\ result.data = NilData /\ retries >= 1) =>
        /\ attempts = retries
        /\ sleeps = retries - 1
        /\ events = Alternating(retries)
        /\ result.err = "failed to get data after retries"

\* GetData(MaxRetries) has returned after every attempt failed.
C1_Witness ==
    /\ pc = "done"
    /\ retries = MaxRetries
    /\ result.data = NilData
    /\ attempts = MaxRetries
    /\ sleeps = MaxRetries - 1

C2_NoEarlyEnd ==
    /\ kind \in FailureKinds \cup {"none", "ok"}
    /\ (pc = "after" /\ kind \in FailureKinds) => (data = NilData /\ err # nil)
    /\ (pc = "done" /\ kind \in FailureKinds) =>
        (attempts = retries /\ result.data = NilData)
    /\ (pc = "sleep") => (kind \in FailureKinds /\ attempts < retries)

C2_Retried ==
    (pc = "after" /\ kind \in FailureKinds) =>
        /\ pc' \in {"sleep", "loop"}
        /\ result' = result
        /\ (attempts < retries) => (pc' = "sleep")

\* C2: every kind of attempt failure is handled alike by GetData: none of
\* them ends GetData before the attempts are used up, and each is followed
\* by a wait and another attempt whenever attempts remain.
C2_FailuresRetriedAlike ==
    /\ []C2_NoEarlyEnd
    /\ [][C2_Retried]_vars
    /\ [][(pc = "sleep") => (pc' = "loop" /\ i' < retries)]_vars
    /\ [][(pc = "loop" /\ i < retries) => (pc' = "dial")]_vars

\* A second attempt is under way after the first was rejected by the yield
\* check.
C2_Witness ==
    /\ pc = "dial"
    /\ attempts = 2
    /\ kind = "validation"

\* C3: GetData returns a snapshot only from an attempt whose response has
\* the header AA 55, bytes 151..152 equal to CRC16 of bytes 2..150, and
\* decoded yields within 6500 and 4,000,000; otherwise it returns no
\* snapshot and an error. A snapshot and an error never come together.
C3_SnapshotOnlyIfValid ==
    /\ (pc \in {"after", "done"} /\ data # NilData) =>
        /\ err = nil
        /\ kind = "ok"
        /\ dgram # <<>>
        /\ Len(dgram[1]) >= 153
        /\ SubSeq(dgram[1], 1, 2) = <<170, 85>>
        /\ SubSeq(dgram[1], 152, 153) = CRC16(SubSeq(dgram[1], 3, 151))
        /\ data[1] = Decode(SubSeq(dgram[1], 3, 151), attempts)
        /\ ~RGt(data[1].YieldToday, FromInt(6500))
        /\ ~RGt(data[1].YieldTotal, FromInt(4000000))
    /\ (pc = "after" /\ data = NilData) => err # nil
    /\ (pc = "done") =>
        \/ result.data # NilData /\ result.err = nil /\ result.data = data
        \/ result.data = NilData /\ result.err # nil

\* GetData has returned the snapshot of its second attempt, decoded from the
\* frame whose yields are the largest accepted.
C3_Witness ==
    /\ pc = "done"
    /\ attempts = 2
    /\ result.data # NilData
    /\ dgram = <<FrameEdge>>

\* C4: an attempt that receives a datagram of any length other than 153
\* bytes fails and produces no snapshot.
C4_WrongLengthFails ==
    (pc = "after" /\ dgram # <<>> /\ Len(dgram[1]) # 153) =>
        (data = NilData /\ err # nil)

\* GetData has returned a snapshot decoded from the first 153 bytes of a
\* 154-byte datagram.
C4_Witness ==
    /\ pc = "done"
    /\ dgram = <<FrameLong>>
    /\ n = 153
    /\ result.data # NilData
    /\ result.err = nil

\* C5: the socket of an attempt is closed before the attempt returns, on
\* every path: at most one socket is open, none is open between attempts or
\* once GetData has returned, and every socket belongs to one attempt.
C5_SocketClosed ==
    /\ Cardinality(OpenSocks) <= 1
    /\ (pc \in {"loop", "dial", "after", "sleep", "done"}) => OpenSocks = {}
    /\ (pc \in {"deadline", "write", "read", "size", "header", "crc", "parse"})
        => (conn \in OpenSocks /\ socks[conn].attempt = attempts)
    /\ \A j, k \in 1..Len(socks) :
        j < k => socks[j].attempt < socks[k].attempt
    /\ \A k \in 1..Len(sent) : socks[sent[k].sock].attempt = sent[k].attempt

\* The second attempt has returned a snapshot; both sockets are closed.
C5_Witness ==
    /\ pc = "after"
    /\ kind = "ok"
    /\ Len(socks) = 2
    /\ OpenSocks = {}

\* The checksum algorithm as specified, on a 16-bit register held as the set
\* of its bits that are 1 (bit 0 the lowest).
RegBits(v) == {k \in 0..15 : (v \div (2 ^ k)) % 2 = 1}
RegXor(x, y) == (x \ y) \cup (y \ x)
RegShift(x) == {k - 1 : k \in x \ {0}}
\* 0xA001 has bits 15, 13 and 0.
RegStep(x) == IF 0 \in x THEN RegXor(RegShift(x), {0, 13, 15}) ELSE RegShift(x)
RegByte(x, b) ==
    RegStep(RegStep(RegStep(RegStep(RegStep(RegStep(RegStep(RegStep(
        RegXor(x, RegBits(b))))))))))
\* The register after the bytes of bs, starting from 0xFFFF (all 16 bits).
RegAfter(bs) ==
    LET reg[k \in 0..Len(bs)] ==
            IF k = 0 THEN 0..15 ELSE RegByte(reg[k - 1], bs[k])
    IN reg[Len(bs)]
\* The two bytes <<lo, hi>> are the register x, low byte first.
IsRegister(lo, hi, x) ==
    /\ lo \in 0..255
    /\ hi \in 0..255
    /\ RegBits(lo) = {k \in x : k < 8}
    /\ {k + 8 : k \in RegBits(hi)} = {k \in x : k >= 8}

\* C6: CRC16 returns exactly two bytes, the final register of the specified
\* algorithm with the low byte first and the high byte second; for the empty
\* input they are FF FF.
C6_CRC16Algorithm ==
    (applied /\ call.fn = "CRC16") =>
        /\ Len(ret) = 2
        /\ IsRegister(ret[1], ret[2], RegAfter(call.b))
        /\ (call.b = <<>>) => (ret = <<255, 255>>)

\* CRC16 has been applied to the six bytes of the command: D5 C2.
C6_Witness ==
    /\ applied
    /\ call = [fn |-> "CRC16", b |-> <<127, 3, 117, 148, 0, 73>>, exp |-> 0]
    /\ ret = <<213, 194>>

\* The bytes before the last two of the frame f, and its last two bytes.
SplitPrefix(f) == SubSeq(f, 1, Len(f) - 2)
SplitSuffix(f) == SubSeq(f, Len(f) - 1, Len(f))

\* C7: an attempt's integrity check passes exactly when the last two bytes
\* of the 153-byte response are CRC16 of the bytes between the header and
\* them, so a response built as header, payload, CRC16(payload) passes it
\* and a response with any other last two bytes fails it.
C7_IntegrityCheck ==
    /\ (pc = "parse" \/ (pc = "after" /\ kind \in {"ok", "validation"})) =>
        /\ Len(buf) = 153
        /\ SplitSuffix(buf) = CRC16(SubSeq(SplitPrefix(buf), 3, 151))
    /\ (pc = "after" /\ kind = "crc") =>
        /\ Len(buf) = 153
        /\ SplitSuffix(buf) # CRC16(SubSeq(SplitPrefix(buf), 3, 151))
    /\ (pc = "after" /\ dgram # <<>>) =>
        \A p \in {PayloadDay, PayloadEdge, PayloadToday, PayloadTotal} :
            (dgram[1] = <<170, 85>> \o p \o CRC16(p)) => (kind # "crc")

\* An attempt that received a frame with a wrong checksum has failed at the
\* integrity check, and the next attempt's well-formed frame has passed it.
C7_Witness ==
    /\ pc = "parse"
    /\ kind = "crc"
    /\ dgram = <<FrameEdge>>

\* C8: every datagram an attempt sends is the 8 bytes 7F 03 75 94 00 49
\* followed by the CRC16 of those six bytes, low byte first; it is the same
\* in every attempt, and an attempt sends it exactly once.
C8_Request ==
    /\ \A k \in 1..Len(sent) :
        /\ Len(sent[k].bytes) = 8
        /\ SubSeq(sent[k].bytes, 1, 6) = <<127, 3, 117, 148, 0, 73>>
        /\ IsRegister(sent[k].bytes[7], sent[k].bytes[8],
                      RegAfter(<<127, 3, 117, 148, 0, 73>>))
        /\ sent[k].bytes = sent[1].bytes
    /\ \A a \in 1..attempts : Cardinality(SentBy(a)) <= 1
    /\ (pc \in {"read", "size", "header", "crc", "parse"}) =>
        Cardinality(SentBy(attempts)) = 1
    /\ (pc = "after") =>
        Cardinality(SentBy(attempts)) =
            (IF kind \in {"dial", "deadline", "send"} THEN 0 ELSE 1)
    /\ (pc \in {"dial", "deadline", "write"}) => SentBy(attempts) = {}

\* The second attempt has sent its request, the same as the first.
C8_Witness ==
    /\ pc = "read"
    /\ Len(sent) = 2
    /\ sent[1].attempt = 1
    /\ sent[2].attempt = 2
    /\ sent[2].bytes = <<127, 3, 117, 148, 0, 73, 213, 194>>

\* Ten to the power k, k >= 0.
TenTo(k) ==
    LET ten[j \in 0..k] == IF j = 0 THEN 1 ELSE 10 * ten[j - 1]
    IN ten[k]

\* The big-endian unsigned value of the bytes given to Parse16 or Parse32.
RawOfCall == IF call.fn = "Parse16" THEN Uint16(call.b) ELSE Uint32(call.b)

\* C9: for every exponent e in {0, -1, -2}, Parse16 and Parse32 return the
\* big-endian unsigned value of the bytes divided by 10^(-e), exactly
\* (09 29 with exponent -1 gives 234.5; with exponent 0 the integer itself).
C9_FixedPointExact ==
    (applied /\ call.fn \in {"Parse16", "Parse32"} /\ call.exp \in {0, -1, -2})
        => ret = Rat(RawOfCall, TenTo(0 - call.exp))

\* Parse16 of 09 29 with exponent -1 has returned 2580/11 (234.5454...).
C9_Witness ==
    /\ applied
    /\ call = [fn |-> "Parse16", b |-> <<9, 41>>, exp |-> -1]
    /\ ret = [n |-> 2580, d |-> 11]

\* C10: for every exponent e > 0, pow10(e) is ten to the power e, and
\* Parse16 and Parse32 return the big-endian unsigned value of the bytes
\* multiplied by 10^e.
C10_PositiveExponent ==
    (applied /\ call.exp > 0) =>
        /\ ret.d = 1
        /\ (call.fn = "pow10") => (ret.n = TenTo(call.exp))
        /\ (call.fn \in {"Parse16", "Parse32"}) =>
            /\ ret.n % TenTo(call.exp) = 0
            /\ ret.n \div TenTo(call.exp) = RawOfCall

\* Parse16 of 00 07 with exponent 1 has returned 80.
C10_Witness ==
    /\ applied
    /\ call = [fn |-> "Parse16", b |-> <<0, 7>>, exp |-> 1]
    /\ ret = [n |-> 80, d |-> 1]

\* parsePayload has been applied to the payload in `call`.
Parsed == applied /\ call.fn = "parsePayload"

\* The raw 16-bit field at byte `at` of the payload in `call`.
RawField(at) == Uint16(Slice(call.b, at, at + 2))

\* C11: for AC phase 1 or 2, a raw voltage of FF FF makes the phase's
\* voltage, current and frequency all 0 in the snapshot; otherwise, and
\* always for phase 0, they are the decoded raw fields.
C11_SentinelSuppression ==
    (Parsed /\ ret.data # NilData) =>
        \A ph \in 0..2 :
            LET snap == ret.data[1]
                got == <<snap.VoltageAC[ph], snap.CurrentAC[ph],
                         snap.FrequencyAC[ph]>>
            IN IF ph > 0 /\ RawField(39 + ph * 2) = 65535
               THEN got = <<FromInt(0), FromInt(0), FromInt(0)>>
               ELSE got = <<Parse16(Slice(call.b, 39 + ph * 2, 41 + ph * 2), -1),
                            Parse16(Slice(call.b, 45 + ph * 2, 47 + ph * 2), -1),
                            Parse16(Slice(call.b, 51 + ph * 2, 53 + ph * 2), -2)>>

\* parsePayload has returned a snapshot whose phase 1, sent with the raw
\* voltage FF FF, has the voltage 72089/11 (6553.5454...).
C11_Witness ==
    /\ Parsed
    /\ call.b = PayloadDay
    /\ ret.data # NilData
    /\ ret.data[1].VoltageAC[1] = [n |-> 72089, d |-> 11]
    /\ ret.data[1].CurrentAC[1] # FromInt(0)

\* The yields of the payload in `call`, read as the layout says (tenths of
\* a kWh at byte 91, whole kWh at byte 93), exceed a limit.
YieldsOver ==
    \/ RGt(Rat(RawField(91), 10), FromInt(6500))
    \/ RGt(FromInt(Uint32(Slice(call.b, 93, 97))), FromInt(4000000))

\* C12: parsePayload returns an error and no snapshot exactly when
\* yieldToday > 6500 or yieldTotal > 4,000,000; 6500.0 and 4,000,000 are
\* accepted, 6500.1 and 4,000,001 rejected, and no other field matters.
C12_YieldBounds ==
    Parsed =>
        IF YieldsOver
        THEN ret.data = NilData /\ ret.err = "unrealistic yield values"
        ELSE ret.data # NilData /\ ret.err = nil

\* parsePayload has accepted the payload with both yields at their limits
\* and every other field at its largest raw value.
C12_Witness ==
    /\ Parsed
    /\ call.b = PayloadOf(FieldsSaturated)
    /\ RawField(91) = 65000
    /\ ret.data # NilData

\* C13: parsePayload never rejects a payload for its status code, and the
\* snapshot's status is the raw 16-bit integer at bytes 61..62: 0..3 are
\* WAITING, NORMAL, ERROR, CHECKING and any other value is kept as it is.
C13_StatusKept ==
    Parsed =>
        /\ (ret.data = NilData) => YieldsOver
        /\ (ret.data # NilData) =>
            /\ ret.data[1].Status = RawField(61)
            /\ (ret.data[1].Status = WAITING) <=> (RawField(61) = 0)
            /\ (ret.data[1].Status = NORMAL) <=> (RawField(61) = 1)
            /\ (ret.data[1].Status = ERROR) <=> (RawField(61) = 2)
            /\ (ret.data[1].Status = CHECKING) <=> (RawField(61) = 3)

\* parsePayload has returned a snapshot with the status 65535.
C13_Witness ==
    /\ Parsed
    /\ RawField(61) = 65535
    /\ ret.data # NilData
    /\ ret.data[1].Status = 65535

\* C17: GetData stops at the first attempt that succeeds: it returns that
\* attempt's snapshot with a nil error after k attempts and k-1 waits, and
\* there is no attempt and no wait after a success.
C17_FirstSuccess ==
    /\ (kind = "ok") => (pc \in {"after", "done"} /\ data # NilData)
    /\ (pc = "done" /\ kind = "ok") => result.data # NilData
    /\ (pc = "done" /\ result.data # NilData) =>
        /\ result.err = nil
        /\ kind = "ok"
        /\ attempts \in 1..retries
        /\ sleeps = attempts - 1
        /\ events = Alternating(attempts)
        /\ result.data = data
        /\ result.data[1].Sample = attempts

\* GetData(3) has returned the snapshot of its second attempt after one wait.
C17_Witness ==
    /\ pc = "done"
    /\ retries = 3
    /\ attempts = 2
    /\ sleeps = 1
    /\ result.data # NilData
    /\ result.data[1].Sample = 2

\* The steps of an attempt, in the order of getData.
StepOrder ==
    <<"dial", "deadline", "write", "read", "size", "header", "crc", "parse">>

\* How many steps an attempt that failed in the given way has run.
StepsToFail ==
    [dial |-> 1, deadline |-> 2, send |-> 3, recv |-> 5, length |-> 5,
     header |-> 6, crc |-> 7, validation |-> 8]

\* C18: the steps of an attempt run in the order open socket, set deadline,
\* send, receive, check length, check header, check CRC, parse, each at
\* most once, and a failing step is the attempt's last: nothing is sent
\* before the socket is open and the deadline set, nothing is read unless
\* the send succeeded, and each check runs only after those before it
\* passed.
C18_StepOrder ==
    /\ Len(steps) <= Len(StepOrder)
    /\ steps = SubSeq(StepOrder, 1, Len(steps))
    /\ (pc = "after" /\ kind \in FailureKinds) => Len(steps) = StepsToFail[kind]
    /\ (pc = "after" /\ kind = "ok") => steps = StepOrder
    /\ (pc \in {"dial", "deadline", "write", "read", "size", "header", "crc",
                "parse", "after"}) =>
        /\ (Len(steps) < 1) => OpenSocks = {}
        /\ (Len(steps) < 3) => SentBy(attempts) = {}
        /\ (Len(steps) < 4) => (dgram = <<>> /\ buf = <<>>)
        /\ (dgram # <<>>) => Cardinality(SentBy(attempts)) = 1
        /\ (Len(steps) >= 6) => (n = 153 /\ rerr = nil)
        /\ (Len(steps) >= 7) => SubSeq(buf, 1, 2) = <<170, 85>>
        /\ (Len(steps) >= 8) =>
            SubSeq(buf, 152, 153) = CRC16(SubSeq(buf, 3, 151))

\* The second attempt has ended at the header check, after six steps.
C18_Witness ==
    /\ pc = "after"
    /\ attempts = 2
    /\ kind = "header"
    /\ steps = <<"dial", "deadline", "write", "read", "size", "header">>

\* C19: for an attempt limit n <= 0, GetData makes no attempt, opens no
\* socket, does not wait, and returns no snapshot and the aggregate error.
C19_NonPositiveLimit ==
    (retries <= 0) =>
        /\ pc \in {"loop", "done"}
        /\ attempts = 0
        /\ sleeps = 0
        /\ events = <<>>
        /\ socks = <<>>
        /\ sent = <<>>
        /\ (pc = "done") =>
            result = [data |-> NilData,
                      err |-> "failed to get data after retries"]

\* GetData has returned for a negative attempt limit.
C19_Witness ==
    /\ pc = "done"
    /\ retries < 0
    /\ attempts = 0
    /\ result.err = "failed to get data after retries"

\* The process has ended: by os.Exit, by log.Fatalf or by a panic.
Exited == mpc = "exit"

\* C14: every invocation of main ends, and one that passes the daylight
\* gate calls GetData exactly once, with the limit 3: the body of the for
\* loop runs at most once, so there are at most 3 attempts.
C14_MainTerminates ==
    /\ Exited \/ ENABLED NextMain
    /\ rounds <= 1
    /\ polls = rounds
    /\ attempts <= 3
    /\ (polls = 1) => retries = 3
    /\ (mpc \in {"fetching", "marshal", "upload", "finish"}) => polls = 1
    /\ (Exited /\ exitMsg \in {"Failed to get data", "Failed to marshal data",
                              "debug", "Upload to PVOutput failed"})
        => polls = 1
    /\ (Exited /\ uploads = 1) => polls = 1

\* main waits for the answer of the geocoding request, which never comes.
C14_Witness ==
    /\ mpc = "blocked"
    /\ geo = "hang"
    /\ ~ENABLED NextMain
    /\ polls = 0

\* The gate of lines 199-205 found the clock outside the day.
Dark == clock # 0 /\ (clock < sunriseTime \/ clock > sunsetTime)

\* C15: when the clock is before the day's sunrise or after its sunset, or
\* geocoding an uncached location failed, the process exits before GetData
\* is called: no attempt, no socket, no request, no upload.
C15_DaylightGate ==
    (Dark \/ geo = "error") =>
        /\ Exited
        /\ exitCode = (IF geo = "error" THEN 1 ELSE 0)
        /\ polls = 0
        /\ pc = "idle"
        /\ attempts = 0
        /\ socks = <<>>
        /\ sent = <<>>
        /\ uploads = 0

\* The process has exited after sundown without polling.
C15_Witness ==
    /\ Exited
    /\ sunsetTime > 0
    /\ clock > sunsetTime
    /\ exitMsg = "Running after sun down, exiting"
    /\ polls = 0

\* C16: upload is called at most once, and only after GetData returned a
\* snapshot; a transport error or a response that is not 2xx ends the
\* process as an upload failure, with no second upload and no new poll; a
\* failed exchange ends it as an exchange failure with no upload.
C16_UploadOnce ==
    /\ uploads <= 1
    /\ (uploads = 1) =>
        /\ polls = 1
        /\ pc = "done"
        /\ result.data # NilData
        /\ result.err = nil
        /\ ~debug
    /\ (uploads = 1 /\ upstatus \notin 200..299) =>
        /\ Exited
        /\ exitCode = 1
        /\ exitMsg = "Upload to PVOutput failed"
    /\ (mpc # "fetching" /\ pc = "done" /\ result.err # nil) =>
        /\ Exited
        /\ exitCode = 1
        /\ exitMsg = "Failed to get data"
        /\ uploads = 0
    /\ (exitMsg = "Upload to PVOutput failed") =>
        (uploads = 1 /\ result.err = nil)
    /\ (exitMsg = "Failed to get data") => (uploads = 0 /\ result.err # nil)

\* The process has ended as an upload failure after the response 404.
C16_Witness ==
    /\ Exited
    /\ uploads = 1
    /\ upstatus = 404
    /\ exitCode = 1
    /\ polls = 1

\* C20: a cache file that cannot be loaded (unreadable, malformed, or the
\* JSON null) does not crash the process: the location is geocoded, kept in
\* the in-memory cache, and main goes on to the daylight gate, as it does
\* when the file is missing.
C20_CacheLoadFailure ==
    (loaded \in {"unreadable", "malformed", "null"}) =>
        /\ exitCode # 2
        /\ (geo = "ok" /\ mpc # "store") =>
            cache = [isNil |-> FALSE, hit |-> TRUE]

\* The process has panicked storing the coordinates after the cache file
\* held malformed JSON.
C20_Witness ==
    /\ Exited
    /\ loaded = "malformed"
    /\ geo = "ok"
    /\ exitCode = 2
    /\ exitMsg = "panic: assignment to entry in nil map"
    /\ polls = 0

====
